---- MODULE Spec2Model ----
(***************************************************************************)
(* Model of smos/smos_l4/interface_l4.py: the single-image reader/writer   *)
(* SMOSL4Img and the multi-temporal dataset SMOSL4Ds.                       *)
(*                                                                         *)
(* Encodings.  A numpy array is a record [shape, dtype, a] whose field a   *)
(* is the row-major sequence of its elements; a numpy masked array has in  *)
(* addition the fields mask and fill_value.  Python's None is the record   *)
(* None; an optional number or set is wrapped in a one-field record.  A    *)
(* datetime is [day, hour], days counted from 2000-01-01.  A dict is a     *)
(* function whose domain is its key set.                                   *)
(***************************************************************************)
EXTENDS Integers, Sequences, FiniteSets, TLC

VARIABLES
    \* ---- SMOSL4Img fields (the reader instance; SMOSL4Ds.fid) ----
    parameters,      \* self.parameters: sequence of parameter names
    flatten,         \* self.flatten
    read_flags,      \* self.read_flags: None or [flags |-> set of accepted flags]
    oper,            \* self.oper
    float_fillval,   \* self.float_fillval: None or [val |-> number]
    grid,            \* self.grid
    image_missing,   \* self.image_missing
    img,             \* self.img: None or an Image record
    glob_attrs,      \* self.glob_attrs: None or dict of global attributes
    \* ---- environment ----
    tile,            \* content pattern of the source raster files
    files,           \* output paths -> None (no file) or the netcdf file written
    \* ---- SMOSL4Ds.write_multiple ----
    ioclass_kws,     \* SMOSL4Ds.ioclass_kws: the parameters every fid is built with
    present,         \* days for which a source file exists
    stackfile,       \* the stackfile argument: None or [name |-> path]
    todo,            \* timestamps the loop has still to visit
    pc,              \* "idle", "loop" or "done"
    \* ---- SMOSL4Ds.tstamps_for_daterange ----
    start_date, end_date, timestamps,
    \* ---- observation ----
    src_attrs,       \* global attributes of the source file opened last, or None
    lastop           \* what the last call was, on what, and how it ended

vars == <<parameters, flatten, read_flags, oper, float_fillval, grid,
          image_missing, img, glob_attrs, tile, files, present, stackfile,
          ioclass_kws, todo, pc, start_date, end_date, timestamps, src_attrs,
          lastop>>

imgVars == <<image_missing, img, glob_attrs>>
cfgVars == <<flatten, read_flags, oper, float_fillval, grid, tile>>
dsVars == <<ioclass_kws, present, stackfile, todo, pc>>
rangeVars == <<start_date, end_date, timestamps>>

\* ------------------------------------------------------------------ bounds
Rows == 2          \* rows of the active raster
Cols == 2          \* columns of the active raster
TileLen == 2       \* period of the pixel pattern of a source raster
MaxStack == 2      \* cap on the length of an output file's time axis
MaxDay == 3        \* last day a date range may touch

\* ------------------------------------------------------------------ values
None == [none |-> TRUE]
NaN == 99

isfinite(v) == v # NaN

Range(s) == {s[i] : i \in DOMAIN s}

RECURSIVE unique(_)
\* np.unique: the sorted sequence of the distinct values
unique(S) ==
    IF S = {} THEN <<>>
    ELSE LET m == CHOOSE x \in S : \A y \in S : x <= y
         IN <<m>> \o unique(S \ {m})

\* ------------------------------------------------------------------ arrays
size(arr) == Len(arr.a)

IsMasked(arr) == "mask" \in DOMAIN arr

\* np.full(shape, v)
full(shape, v) ==
    [shape |-> shape, dtype |-> "f", a |-> [i \in 1..(shape[1] * shape[2]) |-> v]]

\* ndarray.flatten()
flat(arr) == [arr EXCEPT !.shape = <<size(arr)>>]

\* ndarray.reshape(rows, cols); a size mismatch raises ValueError in numpy
reshape(arr, rows, cols) == [arr EXCEPT !.shape = <<rows, cols>>]

\* the row-major position of element (r, c), both counted from 0
Pos(r, c, cols) == r * cols + c + 1

FlipSeq(s, rows, cols) ==
    [i \in 1..(rows * cols) |->
        s[Pos(rows - 1 - ((i - 1) \div cols), (i - 1) % cols, cols)]]

\* np.flipud of a 2-d array: row order reversed
flipud(arr) ==
    LET rows == arr.shape[1]
        cols == arr.shape[2]
    IN IF IsMasked(arr)
       THEN [arr EXCEPT !.a = FlipSeq(arr.a, rows, cols),
                        !.mask = FlipSeq(arr.mask, rows, cols)]
       ELSE [arr EXCEPT !.a = FlipSeq(arr.a, rows, cols)]

\* arr.flatten()[idx]
take(arr, idx) ==
    IF IsMasked(arr)
    THEN [arr EXCEPT !.shape = <<Len(idx)>>,
                     !.a = [i \in 1..Len(idx) |-> arr.a[idx[i]]],
                     !.mask = [i \in 1..Len(idx) |-> arr.mask[idx[i]]]]
    ELSE [arr EXCEPT !.shape = <<Len(idx)>>,
                     !.a = [i \in 1..Len(idx) |-> arr.a[idx[i]]]]

\* MaskedArray.filled(fill_value): a plain ndarray
filled(arr, fv) ==
    [shape |-> arr.shape, dtype |-> arr.dtype,
     a |-> [i \in 1..size(arr) |-> IF arr.mask[i] THEN fv ELSE arr.a[i]]]

\* np.isin(element, test_elements): not-a-number equals nothing
isin(v, S) == v # NaN /\ v \in S

\* -------------------------------------------------------------------- grid
\* The grid collaborator (smos.grid.EASE25CellGrid or any pygeogrids.CellGrid):
\* the file raster has Rows + 1 rows; a bounding box keeps the Rows upper ones.
RawRows == Rows + 1

RawSize == RawRows * Cols

floatarr(s) == [shape |-> <<Len(s)>>, dtype |-> "f", a |-> s]

\* latitude of raster cell g: rows are stored south to north
CellLat(g) == ((g - 1) \div Cols) + 1

\* longitude of raster cell g on a regular grid: it depends on the column only
CellLon(g) == 10 * (((g - 1) % Cols) + 1)

\* longitude of raster cell g on a grid whose meridians are not raster columns
SkewLon(g) == CellLon(g) + CellLat(g)

GlobalGrid ==
    LET gpis == [i \in 1..RawSize |-> i]
    IN [shape |-> <<RawRows, Cols>>, bbox |-> "None", activegpis |-> gpis,
        activearrlon |-> floatarr([i \in 1..RawSize |-> CellLon(gpis[i])]),
        activearrlat |-> floatarr([i \in 1..RawSize |-> CellLat(gpis[i])])]

SubsetGrid ==
    LET gpis == [i \in 1..(Rows * Cols) |-> Cols + i]
    IN [shape |-> <<RawRows, Cols>>, subset_shape |-> <<Rows, Cols>>,
        bbox |-> "bbox", activegpis |-> gpis,
        activearrlon |-> floatarr([i \in 1..(Rows * Cols) |-> CellLon(gpis[i])]),
        activearrlat |-> floatarr([i \in 1..(Rows * Cols) |-> CellLat(gpis[i])])]

SkewGrid ==
    [GlobalGrid EXCEPT
        !.activearrlon = floatarr([i \in 1..RawSize |-> SkewLon(i)])]

Grids == {GlobalGrid, SubsetGrid, SkewGrid}

\* try: self.grid.subset_shape / except AttributeError: self.grid.shape
grid_shape(g) == IF "subset_shape" \in DOMAIN g THEN g.subset_shape ELSE g.shape

\* ------------------------------------------------------------ source files
\* One raster cell of a source file: is the soil-moisture value a number,
\* and what is the cell's quality flag.
PixelKinds ==
    {[sm |-> "val", flag |-> 0], [sm |-> "val", flag |-> 1],
     [sm |-> "nan", flag |-> 0], [sm |-> "val", flag |-> NaN]}

Tiles == [1..TileLen -> PixelKinds]

flag_name(op) == IF op THEN "Quality" ELSE "QUAL"

KindAt(tl, g) == tl[((g - 1) % TileLen) + 1]

\* The global attributes of a source file (Dataset.__dict__), version gen.
SourceAttrs(gen) ==
    [history |-> "h", NCO |-> "nco", creation_time |-> "ct",
     ease_global |-> "eg", institution |-> "inst", contact |-> "c",
     netcdf_version_id |-> "4", title |-> gen]

\* The netcdf file netCDF4.Dataset(self.filename) opens: two coordinate
\* variables and three rasters; the flag raster is float in the scientific
\* product and integer (missing = -1) in the operational one.
SourceFile(tl, op, gen) ==
    LET coord == [ndim |-> 1, dtype |-> "f", ncattrs |-> <<>>, raw |-> <<>>]
        sm == [ndim |-> 2, dtype |-> "f",
               ncattrs |-> ("_FillValue" :> 90) @@ ("units" :> 3),
               raw |-> [g \in 1..RawSize |->
                           IF KindAt(tl, g).sm = "nan" THEN NaN ELSE g]]
        mask == [ndim |-> 2, dtype |-> "i",
                 ncattrs |-> ("_FillValue" :> 91),
                 raw |-> [g \in 1..RawSize |-> 20 + (g % 2)]]
        qual == [ndim |-> 2, dtype |-> IF op THEN "i" ELSE "f",
                 ncattrs |-> ("_FillValue" :> 92),
                 raw |-> [g \in 1..RawSize |->
                           IF op /\ KindAt(tl, g).flag = NaN THEN -1
                           ELSE KindAt(tl, g).flag]]
    IN [attrs |-> SourceAttrs(gen),
        varnames |-> <<"lat", "lon", "SM", "MASK", flag_name(op)>>,
        variables |-> ("lat" :> coord) @@ ("lon" :> coord) @@ ("SM" :> sm)
                      @@ ("MASK" :> mask) @@ (flag_name(op) :> qual)]

\* -------------------------------------------------------------- SMOSL4Img
\* The state of one SMOSL4Img instance that read and write change.
Self == [parameters |-> parameters, image_missing |-> image_missing,
         img |-> img, glob_attrs |-> glob_attrs]

\* SMOSL4Img.__init__ with the given parameters argument (None = <<>>)
NewImg(params) == [parameters |-> params, image_missing |-> FALSE,
                   img |-> None, glob_attrs |-> None]

\* _read_empty with np.zeros in place of np.full(..., np.nan)
_read_empty_zeros(params, g) ==
    LET shape == grid_shape(g)
    IN [img |-> [p \in Range(params) |-> flat(full(shape, 0))],
        meta |-> [p \in Range(params) |-> ("image_missing" :> 1)]]

\* _read_empty: one all-NaN flat array and {'image_missing': 1} per parameter
_read_empty(params, g) ==
    LET shape == grid_shape(g)
    IN [img |-> [p \in Range(params) |-> flat(full(shape, NaN))],
        meta |-> [p \in Range(params) |-> ("image_missing" :> 1)]]

\* lines 154-164: the raw array as a masked array, mask = ~isfinite
decode_param(var) ==
    [shape |-> <<RawRows, Cols>>, dtype |-> var.dtype, a |-> var.raw,
     mask |-> [i \in 1..Len(var.raw) |-> ~isfinite(var.raw[i])],
     fill_value |-> var.ncattrs["_FillValue"]]

\* lines 153-167: the variable's attributes plus image_missing = 0
param_metadata(var) == ("image_missing" :> 0) @@ var.ncattrs

\* the flag-exclusion mask with the negation of line 172 / 174 left out
flag_mask_inverted(param_img, plist, rflags, op) ==
    IF rflags # None
    THEN [i \in 1..RawSize |-> isin(param_img[flag_name(op)].a[i], rflags.flags)]
    ELSE [i \in 1..size(param_img[plist[1]]) |-> FALSE]

\* lines 170-177: the flag-exclusion mask
flag_mask(param_img, plist, rflags, op) ==
    IF rflags # None
    THEN [i \in 1..RawSize |-> ~isin(param_img[flag_name(op)].a[i], rflags.flags)]
    ELSE [i \in 1..size(param_img[plist[1]]) |-> FALSE]

\* lines 181-187: merge the masks, fill float data, keep the active points
apply_mask(data, fmask, fillval, g) ==
    LET merged == [data EXCEPT !.mask = [i \in 1..size(data) |->
                                            data.mask[i] \/ fmask[i]]]
        out == IF fillval # None /\ data.dtype = "f"
               THEN filled(merged, fillval.val)
               ELSE merged
    IN take(out, g.activegpis)

\* _read_img on an opened dataset ds
_read_img(ds, params, rflags, op, fillval, g) ==
    LET selfparams == IF Len(params) = 0
                      THEN SelectSeq(ds.varnames,
                                     LAMBDA k : ds.variables[k].ndim # 1)
                      ELSE params
        plist == IF rflags # None /\ flag_name(op) \notin Range(selfparams)
                 THEN Append(selfparams, flag_name(op))
                 ELSE selfparams
        raw_img == [p \in Range(plist) |-> decode_param(ds.variables[p])]
        fmask == flag_mask(raw_img, plist, rflags, op)
        keep == Range(plist) \ (IF flag_name(op) \notin Range(selfparams)
                                THEN {flag_name(op)} ELSE {})
    IN [img |-> [p \in keep |-> apply_mask(raw_img[p], fmask, fillval, g)],
        meta |-> [p \in keep |-> param_metadata(ds.variables[p])],
        parameters |-> selfparams,
        glob_attrs |-> ds.attrs]

\* lines 222-240: the Image built from the arrays read
make_image(return_img, return_metadata, timestamp, fl, g) ==
    IF fl
    THEN [lon |-> g.activearrlon, lat |-> g.activearrlat,
          data |-> return_img, metadata |-> return_metadata,
          timestamp |-> timestamp]
    ELSE LET rows == grid_shape(g)[1]
             cols == grid_shape(g)[2]
         IN [lon |-> reshape(g.activearrlon, rows, cols),
             lat |-> flipud(reshape(g.activearrlat, rows, cols)),
             data |-> [k \in DOMAIN return_img |->
                          flipud(reshape(return_img[k], rows, cols))],
             metadata |-> return_metadata,
             timestamp |-> timestamp]

\* SMOSL4Img.read(timestamp) with timestamp not None; src is the dataset
\* Dataset(self.filename) opens, or None when opening raises IOError.
read(self, timestamp, src, fl, rflags, op, fillval, g) ==
    IF src # None
    THEN LET r == _read_img(src, self.parameters, rflags, op, fillval, g)
         IN [parameters |-> r.parameters,
             image_missing |-> self.image_missing,
             img |-> make_image(r.img, r.meta, timestamp, fl, g),
             glob_attrs |-> r.glob_attrs]
    ELSE LET r == _read_empty(self.parameters, g)
         IN [parameters |-> self.parameters,
             image_missing |-> TRUE,
             img |-> make_image(r.img, r.meta, timestamp, fl, g),
             glob_attrs |-> self.glob_attrs]

\* get_global_attrs with its default exclude
get_global_attrs(ga) ==
    LET exclude == {"history", "NCO", "netcdf_version_id", "contact",
                    "institution", "creation_time"}
    IN [k \in (DOMAIN ga) \ exclude |-> ga[k]]

\* date2num(timestamp, 'Days since 2000-01-01 00:00:00'), in 24ths of a day
date2num(t) == t.day * 24 + t.hour

\* the time axis after a write that indexes the last entry, not the next
write_timestamp_last(ts, t) ==
    IF ts = <<>> THEN <<date2num(t)>>
    ELSE [ts EXCEPT ![Len(ts)] = date2num(t)]

\* lines 310-311: the time axis after the write
write_timestamp(ts, t) ==
    [i \in 1..(Len(ts) + 1) |-> IF i = Len(ts) + 1 THEN date2num(t) ELSE ts[i]]

\* lines 275-295: the file Dataset(image, mode='w') and the create branch set up
create_file(image) ==
    [timestamp |-> <<>>,
     lon |-> unique(Range(image.lon.a)),
     lat |-> LET u == unique(Range(image.lat.a))
             IN [i \in 1..Len(u) |-> u[Len(u) + 1 - i]],
     units |-> "Days since 2000-01-01 00:00:00",
     attrs |-> <<>>,
     variables |-> <<>>]

\* lines 297-307: self.glob_attrs after the create branch popped and updated it
subset_attrs(ga, g) ==
    LET this_global_attrs ==
            [subset_img_creation_time |-> "now",
             subset_img_bbox_corners_latlon |-> g.bbox,
             subset_software |-> "smos"]
        kept == (DOMAIN ga) \ {"ease_global", "history", "creation_time", "NCO"}
    IN this_global_attrs @@ [k \in kept |-> ga[k]]

\* lines 313-320: the data variables of the file after the image is stored
write_variables(fvars, image) ==
    [v \in (DOMAIN fvars) \cup (DOMAIN image.data) |->
        IF v \in DOMAIN fvars THEN fvars[v] ELSE image.metadata[v]]

\* lines 264-322: the write once the current image passed the checks
write_image(self, file, g) ==
    IF file = None /\ self.glob_attrs = None
    THEN \* glob_attrs.pop on None: the file exists, its time axis is empty
         [result |-> "AttributeError", file |-> create_file(self.img),
          glob_attrs |-> self.glob_attrs]
    ELSE LET ga == IF file = None THEN subset_attrs(self.glob_attrs, g)
                   ELSE self.glob_attrs
             ds == IF file = None
                   THEN [create_file(self.img) EXCEPT !.attrs = ga]
                   ELSE file
         IN [result |-> "ok",
             file |-> [ds EXCEPT
                          !.timestamp = write_timestamp(ds.timestamp,
                                                        self.img.timestamp),
                          !.variables = write_variables(ds.variables, self.img)],
             glob_attrs |-> ga]

\* write without the check of lines 261-262: the file is opened and created,
\* then date2num(None) raises
write_unchecked_timestamp(self, file, g) ==
    IF self.img = None
    THEN [result |-> "IOError", file |-> file, glob_attrs |-> self.glob_attrs]
    ELSE IF self.img.timestamp = None
    THEN [result |-> "TypeError",
          file |-> IF file = None THEN create_file(self.img) ELSE file,
          glob_attrs |-> self.glob_attrs]
    ELSE write_image(self, file, g)

\* SMOSL4Img.write(image): file is what is at the path (None: no file).
\* The result names the exception that escapes, "ok" if none.
write(self, file, g) ==
    IF self.img = None
    THEN [result |-> "IOError", file |-> file, glob_attrs |-> self.glob_attrs]
    ELSE IF self.img.timestamp = None
    THEN [result |-> "IOError", file |-> file, glob_attrs |-> self.glob_attrs]
    ELSE write_image(self, file, g)

\* --------------------------------------------------------------- SMOSL4Ds
Hours == {0, 6, 18}

Dates == [day : 0..MaxDay, hour : Hours]

\* the total of a timedelta, in hours
total_hours(a, b) == (b.day * 24 + b.hour) - (a.day * 24 + a.hour)

\* tstamps_for_daterange: diff.days + 1 instants, one day apart from start_date
tstamps_for_daterange(start, end) ==
    LET days == total_hours(start, end) \div 24
    IN [i \in 1..(days + 1) |-> [day |-> start.day + (i - 1), hour |-> start.hour]]

StackPath == <<"stack", 0>>

DayPath(d) == <<"day", d>>

Paths == {StackPath} \cup {DayPath(d) : d \in 0..MaxDay}

Gen(d) == IF d % 2 = 0 THEN "v1" ELSE "v2"

\* _build_filename and Dataset(self.filename): the dataset of the day's file,
\* None when no file matches the day (filepath None, the open raises IOError)
source_of(t, pres, tl, op) ==
    IF t.day \in pres THEN SourceFile(tl, op, Gen(t.day)) ELSE None

\* line 438-439 left out: no timestamp is skipped
never_skipped(fid) == FALSE

\* line 438: is the timestamp left out of the output
skipped(fid) == fid.image_missing

\* lines 440-445: the path the image is written to
target_path(sf, t) == IF sf = None THEN DayPath(t.day) ELSE StackPath

\* ------------------------------------------------------------------- Init
ParamChoices(op) == {<<>>, <<"SM">>, <<"SM", "MASK">>, <<"MASK", flag_name(op)>>}

FlagChoices == {None, [flags |-> {0}], [flags |-> {0, 1}]}

FillChoices == {None, [val |-> NaN], [val |-> 77]}

\* a source raster of accepted cells, the first of every period with a value
DefaultTile ==
    [i \in 1..TileLen |-> IF i = 1 THEN [sm |-> "val", flag |-> 0]
                          ELSE [sm |-> "nan", flag |-> 0]]

\* the state after SMOSL4Img.__init__ / SMOSL4Ds.__init__, nothing called yet
InitCommon ==
    /\ ioclass_kws = [parameters |-> parameters]
    /\ image_missing = FALSE
    /\ img = None
    /\ glob_attrs = None
    /\ files = [p \in Paths |-> None]
    /\ stackfile = None
    /\ todo = <<>>
    /\ pc = "idle"
    /\ start_date = [day |-> 0, hour |-> 0]
    /\ end_date = [day |-> 0, hour |-> 0]
    /\ timestamps = <<>>
    /\ src_attrs = None
    /\ lastop = [op |-> "init", result |-> "ok"]

\* ----------------------------------------------------- SMOSL4Img's calls
ReadStamps == {[day |-> 0, hour |-> 6], [day |-> 1, hour |-> 0]}

Sources == {None, SourceFile(tile, oper, "v1"), SourceFile(tile, oper, "v2")}

\* SMOSL4Img.read(timestamp), timestamp not None
Read(t, src) ==
    /\ LET s == read(Self, t, src, flatten, read_flags, oper, float_fillval, grid)
       IN /\ parameters' = s.parameters
          /\ image_missing' = s.image_missing
          /\ img' = s.img
          /\ glob_attrs' = s.glob_attrs
          /\ lastop' = [op |-> "read", result |-> "ok", arg |-> t,
                        synthetic |-> (src = None)]
    /\ src_attrs' = IF src = None THEN src_attrs ELSE src.attrs
    /\ UNCHANGED <<cfgVars, files, dsVars, rangeVars>>

\* SMOSL4Img.read(None): lines 212-213
ReadNull ==
    /\ lastop' = [op |-> "read", result |-> "ValueError", arg |-> None,
                  synthetic |-> FALSE]
    /\ UNCHANGED <<parameters, imgVars, cfgVars, files, dsVars, rangeVars,
                   src_attrs>>

\* SMOSL4Img.write(path)
Write(path) ==
    /\ files[path] # None => Len(files[path].timestamp) < MaxStack
    /\ LET w == write(Self, files[path], grid)
       IN /\ files' = [files EXCEPT ![path] = w.file]
          /\ glob_attrs' = w.glob_attrs
          /\ lastop' = [op |-> "write", result |-> w.result, arg |-> path]
    /\ UNCHANGED <<parameters, image_missing, img, cfgVars, dsVars, rangeVars,
                   src_attrs>>

\* The caller holds the Image read returned (line 241 returns self.img
\* itself) and clears its timestamp.
CallerDropsTimestamp ==
    /\ img # None
    /\ img.timestamp # None
    /\ img' = [img EXCEPT !.timestamp = None]
    /\ lastop' = [op |-> "caller", result |-> "ok"]
    /\ UNCHANGED <<parameters, image_missing, glob_attrs, cfgVars, files,
                   dsVars, rangeVars, src_attrs>>

\* SMOSL4Img.get_global_attrs()
GetGlobalAttrs ==
    /\ lastop' = IF glob_attrs = None
                 THEN [op |-> "get_global_attrs", result |-> "AttributeError"]
                 ELSE [op |-> "get_global_attrs", result |-> "ok",
                       ret |-> get_global_attrs(glob_attrs)]
    /\ UNCHANGED <<parameters, imgVars, cfgVars, files, dsVars, rangeVars,
                   src_attrs>>

\* One reader instance, any sequence of calls, on a fixed source raster.
Init ==
    /\ oper = FALSE
    /\ parameters \in {<<>>, <<"SM">>}
    /\ flatten = FALSE
    /\ grid = SubsetGrid
    /\ tile = DefaultTile
    /\ read_flags = [flags |-> {0}]
    /\ float_fillval = [val |-> NaN]
    /\ present = {}
    /\ InitCommon

Next ==
    \/ \E t \in ReadStamps, src \in Sources : Read(t, src)
    \/ ReadNull
    \/ Write(StackPath)
    \/ CallerDropsTimestamp
    \/ GetGlobalAttrs

Spec == Init /\ [][Next]_vars

\* One reader instance reading again and again: any source raster and any
\* filter on the bounding-box grid, the default raster and filter on any grid.
InitDecode ==
    /\ oper \in BOOLEAN
    /\ parameters \in ParamChoices(oper)
    /\ flatten \in BOOLEAN
    /\ grid \in Grids
    /\ tile \in Tiles
    /\ read_flags \in FlagChoices
    /\ float_fillval \in FillChoices
    /\ \/ grid = SubsetGrid
       \/ tile = DefaultTile /\ read_flags = [flags |-> {0}]
                             /\ float_fillval = [val |-> NaN]
    /\ present = {}
    /\ InitCommon

ReadPresent == Read([day |-> 0, hour |-> 0], SourceFile(tile, oper, "v1"))

ReadAbsent == Read([day |-> 0, hour |-> 0], None)

NextDecode == ReadPresent \/ ReadAbsent

SpecDecode == InitDecode /\ [][NextDecode]_vars

\* ------------------------------------------------------- SMOSL4Ds's calls
\* SMOSL4Ds.tstamps_for_daterange(start_date, end_date)
TstampsForDaterange(start, end) ==
    /\ pc = "idle"
    /\ start_date' = start
    /\ end_date' = end
    /\ timestamps' = tstamps_for_daterange(start, end)
    /\ lastop' = [op |-> "tstamps_for_daterange", result |-> "ok"]
    /\ UNCHANGED <<parameters, imgVars, cfgVars, files, dsVars, src_attrs>>

InitRange ==
    /\ Init

NextRange == \E start \in Dates, end \in Dates : TstampsForDaterange(start, end)

SpecRange == InitRange /\ [][NextRange]_vars

\* write_multiple, line 435: the call resolves its date range
WriteMultiple(start, end, sf) ==
    /\ pc = "idle"
    /\ start_date' = start
    /\ end_date' = end
    /\ stackfile' = sf
    /\ todo' = tstamps_for_daterange(start, end)
    /\ pc' = IF todo' = <<>> THEN "done" ELSE "loop"
    /\ lastop' = [op |-> "write_multiple", result |-> "ok"]
    /\ UNCHANGED <<parameters, imgVars, cfgVars, files, ioclass_kws, present,
                   timestamps, src_attrs>>

\* write_multiple, lines 436-447: one pass of the loop.  self.read(t) builds
\* a new SMOSL4Img from ioclass_kws (_assemble_img, _open) and reads with it.
WriteMultipleStep ==
    /\ pc = "loop"
    /\ LET t == Head(todo)
           src == source_of(t, present, tile, oper)
           fid == read(NewImg(ioclass_kws.parameters), t, src, flatten,
                       read_flags, oper, float_fillval, grid)
           path == target_path(stackfile, t)
           w == IF skipped(fid)
                THEN [result |-> "ok", file |-> files[path],
                      glob_attrs |-> fid.glob_attrs]
                ELSE write(fid, files[path], grid)
       IN /\ parameters' = fid.parameters
          /\ image_missing' = fid.image_missing
          /\ img' = fid.img
          /\ glob_attrs' = w.glob_attrs
          /\ files' = [files EXCEPT ![path] = w.file]
          /\ src_attrs' = IF src = None THEN src_attrs ELSE src.attrs
          /\ todo' = IF w.result = "ok" THEN Tail(todo) ELSE todo
          /\ pc' = IF w.result # "ok" THEN "raised"
                   ELSE IF Tail(todo) = <<>> THEN "done" ELSE "loop"
          /\ lastop' = [op |-> "write_multiple", result |-> w.result, arg |-> t]
    /\ UNCHANGED <<cfgVars, ioclass_kws, present, stackfile, rangeVars>>

\* One SMOSL4Ds over a source directory holding the files of some days.
InitDs ==
    /\ oper = FALSE
    /\ parameters \in {<<>>, <<"SM">>}
    /\ flatten = FALSE
    /\ grid = SubsetGrid
    /\ tile = DefaultTile
    /\ read_flags = [flags |-> {0}]
    /\ float_fillval = [val |-> NaN]
    /\ present \in SUBSET (0..MaxDay)
    /\ InitCommon

NextDs ==
    \/ \E start \in Dates, end \in Dates, sf \in {None, [name |-> "stack.nc"]} :
           WriteMultiple(start, end, sf)
    \/ WriteMultipleStep

SpecDs == InitDs /\ [][NextDs]_vars

\* ================================================================ claims
\* the timestamps write_multiple resolved for its date range
RangeStamps == tstamps_for_daterange(start_date, end_date)

\* those the loop has been through
Visited == SubSeq(RangeStamps, 1, Len(RangeStamps) - Len(todo))

HasFile(t) == t.day \in present

Encoded(stamps) == [i \in 1..Len(stamps) |-> date2num(stamps[i])]

\* C1: write_multiple writes a record for a timestamp of its range if and
\* only if the source file of that timestamp exists: at every point of the
\* loop, and when it has returned, the stack file's time axis is exactly the
\* encoded timestamps of the visited dates that have a file, in order (no
\* stack file at all while there is none), so its final length is the number
\* of present dates; without a stack file, a per-date file exists exactly
\* for the visited dates that have a source file and holds that one record.
\* The call never raises.
C1_OnlyPresentDatesWritten ==
    (lastop.op = "write_multiple") =>
        /\ pc # "raised"
        /\ stackfile # None =>
              LET kept == SelectSeq(Visited, HasFile)
              IN /\ \A d \in 0..MaxDay : files[DayPath(d)] = None
                 /\ IF kept = <<>> THEN files[StackPath] = None
                    ELSE /\ files[StackPath] # None
                         /\ files[StackPath].timestamp = Encoded(kept)
                         /\ Len(files[StackPath].timestamp)
                               = Cardinality({i \in 1..Len(Visited) :
                                                 HasFile(Visited[i])})
                         /\ (\E i \in 1..Len(Visited) : ~HasFile(Visited[i]))
                               => Len(files[StackPath].timestamp) < Len(Visited)
        /\ stackfile = None =>
              /\ files[StackPath] = None
              /\ \A d \in 0..MaxDay :
                    LET hits == SelectSeq(Visited,
                                          LAMBDA t : t.day = d /\ HasFile(t))
                    IN IF hits = <<>> THEN files[DayPath(d)] = None
                       ELSE /\ files[DayPath(d)] # None
                            /\ files[DayPath(d)].timestamp = Encoded(hits)

\* C1 witness: a finished stack over four dates, two of them without a file
C1_Witness ==
    /\ lastop.op = "write_multiple"
    /\ pc = "done"
    /\ stackfile # None
    /\ Len(RangeStamps) = 4
    /\ files[StackPath] # None
    /\ Len(files[StackPath].timestamp) = 2
    /\ ~HasFile(RangeStamps[1])
    /\ HasFile(RangeStamps[2])

\* C8: for end not before start, tstamps_for_daterange returns one timestamp
\* per day, strictly increasing and one day apart, the first on start's day
\* and the last on end's day, whatever the times of day of start and end.
C8_BothEndpointDays ==
    (lastop.op = "tstamps_for_daterange" /\ total_hours(start_date, end_date) >= 0) =>
        /\ Len(timestamps) = end_date.day - start_date.day + 1
        /\ timestamps[1].day = start_date.day
        /\ timestamps[Len(timestamps)].day = end_date.day
        /\ \A i \in 1..(Len(timestamps) - 1) :
              /\ total_hours(timestamps[i], timestamps[i + 1]) = 24
              /\ date2num(timestamps[i]) < date2num(timestamps[i + 1])

\* the last call was a read with a timestamp (it returned self.img)
ReadDone == lastop.op = "read" /\ lastop.result = "ok"

\* C2: after any sequence of reads on one instance, image_missing is true
\* if and only if the most recent read substituted the synthetic empty image.
C2_FlagFollowsLastRead ==
    ReadDone => (image_missing <=> lastop.synthetic)

\* what the claim calls the structure of an image
Structure(image) ==
    [names |-> DOMAIN image.data,
     metanames |-> DOMAIN image.metadata,
     shapes |-> [k \in DOMAIN image.data |-> image.data[k].shape]]

\* C3: under a fixed configuration every read yields an image of the same
\* structure (parameter names of data and of metadata, shape of every
\* array), whether the source file was there or not and in whatever order.
C3_SameStructure ==
    [][(lastop'.op = "read" /\ lastop'.result = "ok" /\ img # None)
          => Structure(img') = Structure(img)]_vars

\* C4: a read with a timestamp whose source file cannot be opened raises
\* nothing and returns, and records as self.img, an image with the requested
\* timestamp in which every requested parameter has the metadata
\* {image_missing: 1} and an array of the grid's size holding only NaN.
C4_SyntheticImage ==
    (lastop.op = "read" /\ lastop.arg # None /\ lastop.synthetic) =>
        /\ lastop.result = "ok"
        /\ img # None
        /\ img.timestamp = lastop.arg
        /\ DOMAIN img.data = DOMAIN img.metadata
        /\ \A p \in Range(parameters) :
              /\ p \in DOMAIN img.data
              /\ img.metadata[p] = ("image_missing" :> 1)
              /\ size(img.data[p]) = grid_shape(grid)[1] * grid_shape(grid)[2]
              /\ \A i \in 1..size(img.data[p]) : img.data[p].a[i] = NaN

\* C4 witness: a synthetic image of two parameters in raster layout
C4_Witness ==
    /\ ReadDone
    /\ lastop.synthetic
    /\ ~flatten
    /\ Len(parameters) = 2
    /\ DOMAIN img.data = {"SM", "MASK"}

\* the source file the reads of SpecDecode decode
Decoded == SourceFile(tile, oper, "v1")

\* the active point that element j (row-major, from 1) of a returned data
\* array shows: in raster layout row r holds the points of row rows-1-r
PointOf(j) ==
    LET rows == grid_shape(grid)[1]
        cols == grid_shape(grid)[2]
    IN IF flatten THEN j
       ELSE Pos(rows - 1 - ((j - 1) \div cols), (j - 1) % cols, cols)

\* the raster cell of the source file behind element j
CellOf(j) == grid.activegpis[PointOf(j)]

\* element j of the returned array arr of variable var is excluded the way
\* the configuration asks for
Excluded(arr, j, var) ==
    IF var.dtype = "f" /\ float_fillval # None
    THEN ~IsMasked(arr) /\ arr.a[j] = float_fillval.val
    ELSE IsMasked(arr) /\ arr.mask[j]
         /\ arr.fill_value = var.ncattrs["_FillValue"]

\* C7: in a decoded image, at every point whose quality flag is not in the
\* accepted set every returned parameter is excluded: a float parameter
\* holds float_fillval when one is configured, any other parameter (or any
\* parameter when float_fillval is None) is masked there with its declared
\* fill value.  With read_flags None a point is excluded exactly when its
\* raw value is not finite, and a point not excluded holds its raw value.
C7_FlagFilter ==
    (ReadDone /\ ~lastop.synthetic) =>
        \A p \in DOMAIN img.data :
            \A j \in 1..size(img.data[p]) :
                LET arr == img.data[p]
                    var == Decoded.variables[p]
                    flag == Decoded.variables[flag_name(oper)].raw[CellOf(j)]
                    raw == var.raw[CellOf(j)]
                IN /\ (read_flags # None /\ flag \notin read_flags.flags)
                         => Excluded(arr, j, var)
                   /\ read_flags = None
                         => /\ Excluded(arr, j, var) <=> ~isfinite(raw)
                            /\ isfinite(raw) => arr.a[j] = raw

\* C7 witness: a decoded raster image of a float and an integer parameter,
\* filtered on flag 0 and filled with 77, with a point whose flag is 1
C7_Witness ==
    /\ ReadDone
    /\ ~lastop.synthetic
    /\ ~flatten
    /\ read_flags = [flags |-> {0}]
    /\ float_fillval = [val |-> 77]
    /\ DOMAIN img.data = {"SM", "MASK"}
    /\ \E j \in 1..size(img.data["SM"]) :
          /\ Decoded.variables[flag_name(oper)].raw[CellOf(j)] = 1
          /\ img.data["SM"].a[j] = 77
          /\ img.data["MASK"].mask[j]
    /\ \E j \in 1..size(img.data["SM"]) : img.data["SM"].a[j] = CellOf(j)

\* the image the same read returns with flatten set
FlatImage ==
    read(Self, lastop.arg, IF lastop.synthetic THEN None ELSE Decoded, TRUE,
         read_flags, oper, float_fillval, grid).img

\* C10: without flatten, element (r, c) of lon, of lat and of every data
\* array is element (rows-1-r)*cols + c of the flat sequence that the read
\* returns with flatten.
C10_RasterLayout ==
    (ReadDone /\ ~flatten) =>
        LET rows == grid_shape(grid)[1]
            cols == grid_shape(grid)[2]
        IN \A r \in 0..(rows - 1), c \in 0..(cols - 1) :
              LET here == Pos(r, c, cols)
                  there == (rows - 1 - r) * cols + c + 1
              IN /\ img.lon.a[here] = FlatImage.lon.a[there]
                 /\ img.lat.a[here] = FlatImage.lat.a[there]
                 /\ \A k \in DOMAIN img.data :
                       img.data[k].a[here] = FlatImage.data[k].a[there]

\* the time axis of the file at a path, empty when there is no file
TimeAxis(fs, path) == IF fs[path] = None THEN <<>> ELSE fs[path].timestamp

\* C5: every successful write, creating or appending, leaves a file whose
\* time axis is the one before the call (none: the empty one) followed by
\* one entry, the encoded timestamp of the current image; so N writes to an
\* absent file give N entries in the order of the writes.
C5_AppendsOneEntry ==
    [][(lastop'.op = "write" /\ lastop'.result = "ok") =>
          /\ files'[lastop'.arg] # None
          /\ TimeAxis(files', lastop'.arg)
                = TimeAxis(files, lastop'.arg) \o <<date2num(img.timestamp)>>
          /\ \A path \in Paths \ {lastop'.arg} : files'[path] = files[path]]_vars

\* C5 witness: two writes of increasing timestamps made a two-entry axis
C5_Witness ==
    /\ lastop.op = "write"
    /\ lastop.result = "ok"
    /\ Len(TimeAxis(files, StackPath)) = 2
    /\ files[StackPath].timestamp[1] < files[StackPath].timestamp[2]
    /\ files[StackPath].timestamp[2] = date2num(img.timestamp)

\* C6: a write called when no image has been read, or when the current
\* image has no timestamp, raises the precondition error (IOError) and
\* leaves every output path as it was: no file created, none modified.
C6_WriteNeedsImage ==
    [][(lastop'.op = "write" /\ (img = None \/ img.timestamp = None)) =>
          /\ lastop'.result = "IOError"
          /\ files' = files]_vars

\* C6 witness: a write refused for an image without timestamp, no file made
C6_Witness ==
    /\ lastop.op = "write"
    /\ lastop.result = "IOError"
    /\ img # None
    /\ img.timestamp = None
    /\ files[StackPath] = None

\* C9: once a source file has been opened, get_global_attrs returns the
\* global attributes of the source file opened last without the excluded
\* keys, whatever writes were made in between.
C9_AttrsOfLastSource ==
    (lastop.op = "get_global_attrs" /\ src_attrs # None) =>
        /\ lastop.result = "ok"
        /\ lastop.ret = get_global_attrs(src_attrs)

====
